---- MODULE Spec2Model ----
(***************************************************************************)
(* ClusterRpcProxyPool of django_nameko/rpc.py: a pool of RPC proxy        *)
(* sessions (RpcContext) kept in a queue.Queue, handed out by next(),      *)
(* released by RpcContext.__exit__, rebuilt by _clear/_reload, torn down   *)
(* by stop().                                                              *)
(* The module-level registry get_pool (create_pool_lock, the global pool,  *)
(* the named pools and their context data) is a second part with its own   *)
(* variables and its own specification, SpecRegistry.                      *)
(*                                                                         *)
(* Granularity: one step per call on the shared queue.Queue (each such     *)
(* call is atomic under the queue's own mutex); a loop iteration that      *)
(* creates a context and enqueues it is one step.  Threads interleave      *)
(* between steps.                                                          *)
(***************************************************************************)
EXTENDS Integers, Sequences, FiniteSets, TLC

\* ---------------------------------------------------------------- bounds
MaxPoolSize == 2
MaxSessions == 4

\* ------------------------------------------------------- program constants
\* queue_six.Queue() is built without a maxsize: maxsize = 0, "infinite".
QueueMaxSize == 0

\* Two callers: the fewest that interleave inside every operation.
Threads == {1, 2}
SessionIds == 1..MaxSessions
NoSession == 0

MsgStopped == "This consumer has been stopped, and can no longer be used"
MsgDisconnected == "This consumer has been disconnected, and can no longer be used"
MsgOther == "other"

\* An exception as __exit__ receives it: exc_type and exc_value.  The with
\* statement always delivers exc_value as an instance of exc_type; a handler
\* invoked directly can be given the message text itself (kind "str").
Instance(ty, text) == [type |-> ty, value |-> [kind |-> "instance", text |-> text]]
RawText(ty, text) == [type |-> ty, value |-> [kind |-> "str", text |-> text]]
NoExc == [type |-> "None", value |-> [kind |-> "none", text |-> ""]]

ScopeEndings ==
    { NoExc,
      Instance("RuntimeError", MsgStopped),
      RawText("RuntimeError", MsgStopped),
      Instance("ConnectionError", MsgOther),
      Instance("ValueError", MsgOther) }

VARIABLES
    pool_size,   \* self.pool_size
    state,       \* self.state
    qref,        \* self.queue: "absent" (never assigned), "queue", "None"
    queue,       \* contents of the Queue object self.queue refers to
    poolAlive,   \* the pool object has not been garbage-collected
    nextId,      \* number of RpcContext objects constructed so far
    stops,       \* stops[s]: how many times RpcContext.stop() ran on s
    pc,          \* per thread: position in its current operation
    op,          \* per thread: the operation in progress
    sess,        \* per thread: the RpcContext of its scope
    exc,         \* per thread: what __exit__ was given
    i,           \* per thread: loop counter of start/_reload
    n,           \* per thread: num_of_worker of _reload
    raised,      \* per thread: the exception the operation surfaced
    solo,        \* history is kept: the pool is used by one caller alone
    snap         \* history: the queue as the running checkout or stop() found it

\* ------------------------------------------------- the module-level registry
\* Names that NAMEKO_MULTI_POOL can declare and get_pool can be asked for.
Names == {"a", "b"}
NoName == "None"

\* Context data: a dict over Keys; Absent marks a key the dict does not have.
Keys == {"k1", "k2"}
Absent == "absent"
EmptyBag == [k \in Keys |-> Absent]
BagsOf(v) == {[k \in Keys |-> IF k \in K THEN v ELSE Absent] : K \in SUBSET Keys}

\* The ClusterRpcProxyPool objects get_pool can bind to the global `pool`
\* when there are no named pools: at most one per caller.
DefaultIds == 1..Cardinality(Threads)

\* What get_pool hands back: nothing, the default pool object `id`, the named
\* pool `name`, or the dict of named pools itself.
NoPool == [kind |-> "none", id |-> 0, name |-> NoName]
DefaultPool(id) == [kind |-> "default", id |-> id, name |-> NoName]
NamedPool(name) == [kind |-> "named", id |-> 0, name |-> name]
PoolDict == [kind |-> "dict", id |-> 0, name |-> NoName]

VARIABLES
    settings,    \* django settings: NAMEKO_CONFIG, NAMEKO_MULTI_POOL, context data
    gpool,       \* the global `pool`: NoPool (None), DefaultPool(id) or PoolDict
    lock,        \* create_pool_lock: 0 free, else the thread that acquired it
    dpools,      \* default pool objects: made, state, completed start() runs
    npools,      \* named pool objects: made, state, completed start() runs, context_data
    caller       \* per thread: position in get_pool, its pool_name, its outcome

clientVars == << pool_size, state, qref, queue, poolAlive, nextId, stops,
                 pc, op, sess, exc, i, n, raised, solo, snap >>
regVars == << settings, gpool, lock, dpools, npools, caller >>
vars == << clientVars, regVars >>

\* No pool made, the lock free, nobody inside get_pool.
RegistryAtRest ==
    /\ gpool = NoPool
    /\ lock = 0
    /\ dpools = [d \in DefaultIds |-> [made |-> FALSE, state |-> "NOT_STARTED", starts |-> 0]]
    /\ npools = [m \in Names |-> [made |-> FALSE, state |-> "NOT_STARTED", starts |-> 0,
                                  context_data |-> EmptyBag]]
    /\ caller = [t \in Threads |-> [pc |-> "idle", name |-> NoName, err |-> "none", got |-> NoPool]]

\* The pool of the first part is exercised with the registry left alone.
DefaultSettings ==
    [config |-> TRUE, multi_pool |-> {}, context_data |-> EmptyBag,
     multi_context_data |-> [m \in Names |-> EmptyBag]]

poolVars == << pool_size, state, qref, queue, poolAlive, nextId, stops >>

\* ------------------------------------------------------------ queue.Queue
\* Queue.full(): 0 < maxsize <= qsize.
Full(q) == 0 < QueueMaxSize /\ QueueMaxSize <= Len(q)
\* Queue.empty()
Empty(q) == Len(q) = 0
\* What get() leaves in the queue, and what it returns.
AfterGetPeek(q) == q
AfterGetRequeue(q) == Append(Tail(q), Head(q))
AfterGet(q) == Tail(q)
Got(q) == Head(q)
\* What put() / put_nowait() leaves in the queue.
AfterPut(q, s) == Append(q, s)
\* _put_back(ctx): self.queue.put(ctx)
PutBackDropped(q, s) == q
PutBackQueue(q, s) == AfterPut(q, s)

InQueue(s) == \E k \in 1..Len(queue) : queue[k] = s

\* --------------------------------------------------------------- sessions
Created(s) == s \in 1..nextId
IsOpen(s) == Created(s) /\ stops[s] = 0
OpenCount == Cardinality({s \in SessionIds : IsOpen(s)})

\* ------------------------------------------------------ RpcContext.__exit__
\* exc_value == "text": an exception instance never equals a str.
PyEq(v, text) == v.kind = "str" /\ v.text = text

IsStaleConsumer(e) ==
    /\ e.type = "RuntimeError"
    /\ (PyEq(e.value, MsgStopped) \/ PyEq(e.value, MsgDisconnected))

BranchErrorsReload(e) ==
    IF IsStaleConsumer(e) THEN "clear"
    ELSE IF e.type # "None" THEN "reload"
    ELSE "putback"
Branch(e) ==
    IF IsStaleConsumer(e) THEN "clear"
    ELSE IF e.type = "ConnectionError" THEN "reload"
    ELSE "putback"

\* __exit__ has no return statement: it returns None and suppresses nothing.
ExitSuppressesRecovered(e) == Branch(e) # "putback"
ExitSuppresses(e) == FALSE

\* What leaves the with block: an exception raised inside __exit__ replaces
\* the one in flight; otherwise the one in flight continues unless suppressed.
Surfaced(e, handlerError) ==
    IF handlerError # "none" THEN handlerError
    ELSE IF e.value.kind = "instance" /\ ~ExitSuppresses(e) THEN e.type
    ELSE "none"

\* _reload: if num_of_worker <= 0: num_of_worker = self.pool_size
ReloadCountAll(num) == pool_size
ReloadCount(num) == IF num <= 0 THEN pool_size ELSE num

\* start: for i in xrange(self.pool_size)
StartCountShort == pool_size - 1
StartCount == pool_size

\* ------------------------------------------------- ClusterRpcProxyPool.stop
\* is_started: the pool has left 'NOT_STARTED'.
IsStarted(st) == st # "NOT_STARTED"

\* stop never assigns self.state: the state after stop is the one before it.
StateAfterStopReset(st) == "NOT_STARTED"
StateAfterStop(st) == st

\* stop ends with "self.queue = None".
StopQueueRefKept == "queue"
StopQueueRef == "None"

\* ------------------------------------------------------------------- Init
Init ==
    /\ pool_size \in 1..MaxPoolSize
    /\ state = "NOT_STARTED"
    /\ qref = "absent"
    /\ queue = << >>
    /\ poolAlive = TRUE
    /\ nextId = 0
    /\ stops = [s \in SessionIds |-> 0]
    /\ pc = [t \in Threads |-> "idle"]
    /\ op = [t \in Threads |-> "none"]
    /\ sess = [t \in Threads |-> NoSession]
    /\ exc = [t \in Threads |-> NoExc]
    /\ i = [t \in Threads |-> 0]
    /\ n = [t \in Threads |-> 0]
    /\ raised = [t \in Threads |-> "none"]
    /\ solo = FALSE
    /\ snap = << >>
    /\ settings = DefaultSettings
    /\ RegistryAtRest

\* The same pool, used by one caller alone.
InitSolo ==
    /\ pool_size \in 1..MaxPoolSize
    /\ state = "NOT_STARTED"
    /\ qref = "absent"
    /\ queue = << >>
    /\ poolAlive = TRUE
    /\ nextId = 0
    /\ stops = [s \in SessionIds |-> 0]
    /\ pc = [t \in Threads |-> "idle"]
    /\ op = [t \in Threads |-> "none"]
    /\ sess = [t \in Threads |-> NoSession]
    /\ exc = [t \in Threads |-> NoExc]
    /\ i = [t \in Threads |-> 0]
    /\ n = [t \in Threads |-> 0]
    /\ raised = [t \in Threads |-> "none"]
    /\ solo = TRUE
    /\ snap = << >>
    /\ settings = DefaultSettings
    /\ RegistryAtRest

\* A thread's operation ends, surfacing `err` ("none": it returned).
Finish(t, err) ==
    /\ pc' = [pc EXCEPT ![t] = "done"]
    /\ raised' = [raised EXCEPT ![t] = err]

\* ------------------------------------------------------------------ start
\* get_pool: "if not _pool.is_started: _pool.start()", outside the lock.
BeginStart(t) ==
    /\ pc[t] = "idle"
    /\ poolAlive
    /\ state = "NOT_STARTED"
    /\ pc' = [pc EXCEPT ![t] = "start_new"]
    /\ op' = [op EXCEPT ![t] = "start"]
    /\ UNCHANGED << poolVars, sess, exc, i, n, raised, snap, solo, regVars >>

\* self.queue = queue_six.Queue()
StartNewQueue(t) ==
    /\ pc[t] = "start_new"
    /\ qref' = "queue"
    /\ queue' = << >>
    /\ i' = [i EXCEPT ![t] = 0]
    /\ pc' = [pc EXCEPT ![t] = "start_loop"]
    /\ UNCHANGED << pool_size, state, poolAlive, nextId, stops,
                    op, sess, exc, n, raised, snap, solo, regVars >>

\* ctx = RpcContext(self, self.config); self.queue.put(ctx)
StartPut(t) ==
    /\ pc[t] = "start_loop"
    /\ i[t] < StartCount
    /\ nextId < MaxSessions
    /\ nextId' = nextId + 1
    /\ IF qref = "queue"
       THEN /\ queue' = AfterPut(queue, nextId + 1)
            /\ i' = [i EXCEPT ![t] = i[t] + 1]
            /\ UNCHANGED << pc, raised >>
       ELSE /\ Finish(t, "AttributeError")
            /\ UNCHANGED << queue, i >>
    /\ UNCHANGED << pool_size, state, qref, poolAlive, stops,
                    op, sess, exc, n, snap, solo, regVars >>

\* ClusterRpcProxy(...).start() fails inside RpcContext.__init__
StartOpenFails(t) ==
    /\ pc[t] = "start_loop"
    /\ i[t] < StartCount
    /\ Finish(t, "OpenError")
    /\ UNCHANGED << pool_size, state, qref, queue, poolAlive, nextId, stops,
                    op, sess, exc, i, n, snap, solo, regVars >>

\* self.state = 'STARTED'
StartFinish(t) ==
    /\ pc[t] = "start_loop"
    /\ i[t] >= StartCount
    /\ state' = "STARTED"
    /\ Finish(t, "none")
    /\ UNCHANGED << pool_size, qref, queue, poolAlive, nextId, stops,
                    op, sess, exc, i, n, snap, solo, regVars >>

\* ------------------------------------------------------------------- next
\* pool.next(): return self.queue.get(timeout=False).  Queue.get with
\* block=True and timeout=False (= 0): the deadline is now, so an empty queue
\* raises Empty at once.  self.queue None: AttributeError.  A caller has
\* the pool from get_pool(), which hands it out started.
CheckoutNext(t) ==
    /\ pc[t] = "idle"
    /\ poolAlive
    /\ state = "STARTED"
    /\ op' = [op EXCEPT ![t] = "scope"]
    /\ IF qref # "queue"
       THEN /\ Finish(t, "AttributeError")
            /\ UNCHANGED << queue, sess, snap >>
       ELSE IF Empty(queue)
       THEN /\ Finish(t, "Empty")
            /\ UNCHANGED << queue, sess, snap >>
       ELSE /\ sess' = [sess EXCEPT ![t] = Got(queue)]
            /\ queue' = AfterGet(queue)
            /\ snap' = IF solo THEN queue ELSE snap
            /\ pc' = [pc EXCEPT ![t] = "using"]
            /\ UNCHANGED raised
    /\ UNCHANGED << pool_size, state, qref, poolAlive, nextId, stops,
                    exc, i, n, solo, regVars >>

\* ---------------------------------------------------- RpcContext.__exit__
\* The scope ends with e.  self.pool is a weakref.proxy: once the pool is
\* gone every branch raises ReferenceError, which the handler catches to run
\* self.stop().
ExitScope(t) ==
    /\ pc[t] = "using"
    /\ \E e \in ScopeEndings :
        /\ exc' = [exc EXCEPT ![t] = e]
        /\ IF ~poolAlive
           THEN /\ pc' = [pc EXCEPT ![t] = "selfstop"]
                /\ UNCHANGED << i, n >>
           ELSE /\ pc' = [pc EXCEPT ![t] = Branch(e)]
                /\ i' = [i EXCEPT ![t] = 0]
                /\ n' = [n EXCEPT ![t] = ReloadCount(1)]
    /\ UNCHANGED << poolVars, op, sess, raised, snap, solo, regVars >>

\* _clear: while self.queue.empty() is False
ClearCheck(t) ==
    /\ pc[t] = "clear"
    /\ IF qref # "queue"
       THEN /\ Finish(t, "AttributeError")
            /\ UNCHANGED << i, n >>
       ELSE IF Empty(queue)
       THEN \* self.pool._reload(): num_of_worker = 0
            /\ pc' = [pc EXCEPT ![t] = "reload"]
            /\ i' = [i EXCEPT ![t] = 0]
            /\ n' = [n EXCEPT ![t] = ReloadCount(0)]
            /\ UNCHANGED raised
       ELSE /\ pc' = [pc EXCEPT ![t] = "clear_next"]
            /\ UNCHANGED << i, n, raised >>
    /\ UNCHANGED << poolVars, op, sess, exc, snap, solo, regVars >>

\* _clear: self.next(); the context it returns is dropped, not stopped.
ClearNext(t) ==
    /\ pc[t] = "clear_next"
    /\ IF qref # "queue"
       THEN /\ Finish(t, "AttributeError")
            /\ UNCHANGED queue
       ELSE IF Empty(queue)
       THEN /\ Finish(t, "Empty")
            /\ UNCHANGED queue
       ELSE /\ queue' = AfterGet(queue)
            /\ pc' = [pc EXCEPT ![t] = "clear"]
            /\ UNCHANGED raised
    /\ UNCHANGED << pool_size, state, qref, poolAlive, nextId, stops,
                    op, sess, exc, i, n, snap, solo, regVars >>

\* _reload, one iteration: if self.queue.full() is False: create, put_nowait
ReloadPut(t) ==
    /\ pc[t] = "reload"
    /\ i[t] < n[t]
    /\ IF qref # "queue"
       THEN /\ Finish(t, "AttributeError")
            /\ UNCHANGED << queue, nextId, i >>
       ELSE IF Full(queue)
       THEN /\ i' = [i EXCEPT ![t] = i[t] + 1]
            /\ UNCHANGED << queue, nextId, pc, raised >>
       ELSE /\ nextId < MaxSessions
            /\ nextId' = nextId + 1
            /\ queue' = AfterPut(queue, nextId + 1)
            /\ i' = [i EXCEPT ![t] = i[t] + 1]
            /\ UNCHANGED << pc, raised >>
    /\ UNCHANGED << pool_size, state, qref, poolAlive, stops,
                    op, sess, exc, n, snap, solo, regVars >>

\* _reload: ClusterRpcProxy(...).start() fails; the error leaves __exit__.
ReloadOpenFails(t) ==
    /\ pc[t] = "reload"
    /\ i[t] < n[t]
    /\ qref = "queue"
    /\ ~Full(queue)
    /\ Finish(t, "OpenError")
    /\ UNCHANGED << pool_size, state, qref, queue, poolAlive, nextId, stops,
                    op, sess, exc, i, n, snap, solo, regVars >>

\* _reload returned: __exit__ goes on to self.stop()
ReloadFinish(t) ==
    /\ pc[t] = "reload"
    /\ i[t] >= n[t]
    /\ pc' = [pc EXCEPT ![t] = "selfstop"]
    /\ UNCHANGED << poolVars, op, sess, exc, i, n, raised, snap, solo, regVars >>

\* RpcContext.stop(): self.proxy.stop(); self.proxy = None.  On a context
\* already stopped self.proxy is None and the call raises AttributeError.
SelfStop(t) ==
    /\ pc[t] = "selfstop"
    /\ stops' = [stops EXCEPT ![sess[t]] = IF @ < 2 THEN @ + 1 ELSE @]
    /\ Finish(t, Surfaced(exc[t], IF stops[sess[t]] > 0 THEN "AttributeError" ELSE "none"))
    /\ UNCHANGED << pool_size, state, qref, queue, poolAlive, nextId,
                    op, sess, exc, i, n, snap, solo, regVars >>

\* self.pool._put_back(self): self.queue.put(ctx)
PutBack(t) ==
    /\ pc[t] = "putback"
    /\ IF qref = "queue"
       THEN /\ queue' = PutBackQueue(queue, sess[t])
            /\ Finish(t, Surfaced(exc[t], "none"))
       ELSE /\ Finish(t, Surfaced(exc[t], "AttributeError"))
            /\ UNCHANGED queue
    /\ UNCHANGED << pool_size, state, qref, poolAlive, nextId, stops,
                    op, sess, exc, i, n, snap, solo, regVars >>

\* ------------------------------------------------------------------- stop
BeginStop(t) ==
    /\ pc[t] = "idle"
    /\ poolAlive
    /\ state = "STARTED"
    /\ pc' = [pc EXCEPT ![t] = "stop_loop"]
    /\ op' = [op EXCEPT ![t] = "stop"]
    /\ snap' = IF solo THEN queue ELSE snap
    /\ UNCHANGED << poolVars, sess, exc, i, n, raised, solo, regVars >>

\* stop, one iteration: ctx = self.queue.get_nowait(); ctx.stop()
StopGet(t) ==
    /\ pc[t] = "stop_loop"
    /\ IF qref # "queue"
       THEN /\ Finish(t, "AttributeError")
            /\ UNCHANGED << queue, stops >>
       ELSE IF Empty(queue)
       THEN /\ pc' = [pc EXCEPT ![t] = "stop_clear"]
            /\ UNCHANGED << queue, stops, raised >>
       ELSE /\ queue' = AfterGet(queue)
            /\ stops' = [stops EXCEPT ![Got(queue)] = IF @ < 2 THEN @ + 1 ELSE @]
            /\ IF stops[Got(queue)] > 0
               THEN Finish(t, "AttributeError")
               ELSE UNCHANGED << pc, raised >>
    /\ UNCHANGED << pool_size, state, qref, poolAlive, nextId,
                    op, sess, exc, i, n, snap, solo, regVars >>

\* stop: self.queue.queue.clear(); self.queue = None
StopFinish(t) ==
    /\ pc[t] = "stop_clear"
    /\ IF qref # "queue"
       THEN /\ Finish(t, "AttributeError")
            /\ UNCHANGED << queue, qref >>
       ELSE /\ queue' = << >>
            /\ qref' = StopQueueRef
            /\ Finish(t, "none")
    /\ state' = StateAfterStop(state)
    /\ UNCHANGED << pool_size, poolAlive, nextId, stops,
                    op, sess, exc, i, n, snap, solo, regVars >>

\* ------------------------------------------------------------ environment
\* The caller takes the outcome of its operation and is free again.
Return(t) ==
    /\ pc[t] = "done"
    /\ pc' = [pc EXCEPT ![t] = "idle"]
    /\ op' = [op EXCEPT ![t] = "none"]
    /\ sess' = [sess EXCEPT ![t] = NoSession]
    /\ exc' = [exc EXCEPT ![t] = NoExc]
    /\ i' = [i EXCEPT ![t] = 0]
    /\ n' = [n EXCEPT ![t] = 0]
    /\ raised' = [raised EXCEPT ![t] = "none"]
    /\ snap' = IF op[t] \in {"scope", "stop"} THEN << >> ELSE snap
    /\ UNCHANGED << poolVars, solo, regVars >>

\* destroy_pool() drops the module's reference and the pool object is
\* collected: no thread is inside one of its methods.  Its Queue goes with it.
PoolCollected ==
    /\ poolAlive
    /\ \A t \in Threads : pc[t] \in {"idle", "using", "done"}
    /\ poolAlive' = FALSE
    /\ qref' = "absent"
    /\ queue' = << >>
    /\ UNCHANGED << pool_size, state, nextId, stops,
                    pc, op, sess, exc, i, n, raised, snap, solo, regVars >>

ThreadStep(t) ==
    \/ BeginStart(t)
    \/ StartNewQueue(t)
    \/ StartPut(t)
    \/ StartOpenFails(t)
    \/ StartFinish(t)
    \/ CheckoutNext(t)
    \/ ExitScope(t)
    \/ ClearCheck(t)
    \/ ClearNext(t)
    \/ ReloadPut(t)
    \/ ReloadOpenFails(t)
    \/ ReloadFinish(t)
    \/ SelfStop(t)
    \/ PutBack(t)
    \/ BeginStop(t)
    \/ StopGet(t)
    \/ StopFinish(t)
    \/ Return(t)

Next == (\E t \in Threads : ThreadStep(t)) \/ PoolCollected

Spec == Init /\ [][Next]_vars

\* One caller alone: thread 1 is the only one that ever acts.
NextSolo == ThreadStep(1) \/ PoolCollected

SpecSolo == InitSolo /\ [][NextSolo]_vars

\* A thread holds its context from checkout until __exit__ released it.
Holds(t) == pc[t] \in {"using", "clear", "clear_next", "reload", "selfstop", "putback"}

TypeOK ==
    /\ pool_size \in 1..MaxPoolSize
    /\ state \in {"NOT_STARTED", "STARTED"}
    /\ qref \in {"absent", "queue", "None"}
    /\ nextId \in 0..MaxSessions
    /\ \A k \in 1..Len(queue) : queue[k] \in 1..nextId
    /\ \A t \in Threads : Holds(t) => sess[t] \in 1..nextId

\* =================================================================== get_pool
\* create_pool_lock.acquire() returns only while nobody holds the lock.
LockIgnored(l) == TRUE
LockFree(l) == l = 0

\* a.update(b): b's entries are written over a's.
DictUpdate(a, b) == [k \in Keys |-> IF b[k] # Absent THEN b[k] ELSE a[k]]

\* pool_context_data = multi_context_data.get(name, dict())
\* pool_context_data.update(context_data)
PoolContextData(name) ==
    DictUpdate(settings.multi_context_data[name], settings.context_data)

\* not (not isinstance(pool, dict) or len(pool) == 0 or pool_name not in pool)
DeclaredInDict(name) == gpool = PoolDict
Declared(name) == gpool = PoolDict /\ name \in settings.multi_pool

\* The next ClusterRpcProxyPool object constructed for the default pool.
NewDefaultId == CHOOSE d \in DefaultIds :
                    ~dpools[d].made /\ \A e \in DefaultIds : e < d => dpools[e].made

\* The settings a deployment can have.
SettingsSpace ==
    [config : BOOLEAN,
     multi_pool : SUBSET Names,
     context_data : BagsOf("shared"),
     multi_context_data : [Names -> BagsOf("own")]]

InitRegistry ==
    /\ settings \in SettingsSpace
    /\ RegistryAtRest
    /\ pool_size = 1
    /\ state = "NOT_STARTED"
    /\ qref = "absent"
    /\ queue = << >>
    /\ poolAlive = TRUE
    /\ nextId = 0
    /\ stops = [s \in SessionIds |-> 0]
    /\ pc = [t \in Threads |-> "idle"]
    /\ op = [t \in Threads |-> "none"]
    /\ sess = [t \in Threads |-> NoSession]
    /\ exc = [t \in Threads |-> NoExc]
    /\ i = [t \in Threads |-> 0]
    /\ n = [t \in Threads |-> 0]
    /\ raised = [t \in Threads |-> "none"]
    /\ solo = FALSE
    /\ snap = << >>

\* A get_pool call moves on to position `p`.
GoTo(t, p) == caller' = [caller EXCEPT ![t].pc = p]

\* A get_pool call ends: it raised `err`, or ("none") returned `got`.
GetPoolEnds(t, err, got) ==
    caller' = [caller EXCEPT ![t].pc = "finished", ![t].err = err, ![t].got = got]

\* get_pool(pool_name) is called.
GetPool(t, name) ==
    /\ caller[t].pc = "idle"
    /\ caller' = [caller EXCEPT ![t].pc = "acquire", ![t].name = name]
    /\ UNCHANGED << clientVars, settings, gpool, lock, dpools, npools >>

\* create_pool_lock.acquire()
Acquire(t) ==
    /\ caller[t].pc = "acquire"
    /\ LockFree(lock)
    /\ lock' = t
    /\ GoTo(t, "check")
    /\ UNCHANGED << clientVars, settings, gpool, dpools, npools >>

\* if not pool: if NAMEKO_CONFIG is missing or empty: raise ImproperlyConfigured
CheckPool(t) ==
    /\ caller[t].pc = "check"
    /\ IF gpool # NoPool THEN GoTo(t, "release")
       ELSE IF ~settings.config THEN GetPoolEnds(t, "ImproperlyConfigured", NoPool)
       ELSE GoTo(t, "create")
    /\ UNCHANGED << clientVars, settings, gpool, lock, dpools, npools >>

\* The pools are constructed and bound to the global: the dict of named
\* pools (none started), or the default pool.
CreatePools(t) ==
    /\ caller[t].pc = "create"
    /\ IF settings.multi_pool # {}
       THEN /\ gpool' = PoolDict
            /\ npools' = [m \in Names |->
                             IF m \in settings.multi_pool
                             THEN [npools[m] EXCEPT !.made = TRUE,
                                                    !.context_data = PoolContextData(m)]
                             ELSE npools[m]]
            /\ GoTo(t, "release")
            /\ UNCHANGED dpools
       ELSE /\ gpool' = DefaultPool(NewDefaultId)
            /\ dpools' = [dpools EXCEPT ![NewDefaultId].made = TRUE]
            /\ GoTo(t, "default_start")
            /\ UNCHANGED npools
    /\ UNCHANGED << clientVars, settings, lock >>

\* pool.start()  # start immediately
DefaultStart(t) ==
    /\ caller[t].pc = "default_start"
    /\ dpools' = [dpools EXCEPT ![gpool.id].state = "STARTED",
                                ![gpool.id].starts = @ + 1]
    /\ GoTo(t, "release")
    /\ UNCHANGED << clientVars, settings, gpool, lock, npools >>

\* pool.start() raises: a session's open() failed.
DefaultStartFails(t) ==
    /\ caller[t].pc = "default_start"
    /\ GetPoolEnds(t, "OpenError", NoPool)
    /\ UNCHANGED << clientVars, settings, gpool, lock, dpools, npools >>

\* create_pool_lock.release()
Release(t) ==
    /\ caller[t].pc = "release"
    /\ lock' = 0
    /\ GoTo(t, "lookup")
    /\ UNCHANGED << clientVars, settings, gpool, dpools, npools >>

\* if pool_name is not None: ... else: return pool
Lookup(t) ==
    /\ caller[t].pc = "lookup"
    /\ IF caller[t].name = NoName THEN GetPoolEnds(t, "none", gpool)
       ELSE IF ~Declared(caller[t].name)
       THEN GetPoolEnds(t, "ImproperlyConfigured", NoPool)
       ELSE IF ~IsStarted(npools[caller[t].name].state) THEN GoTo(t, "named_start")
       ELSE GetPoolEnds(t, "none", NamedPool(caller[t].name))
    /\ UNCHANGED << clientVars, settings, gpool, lock, dpools, npools >>

\* _pool.start(); return _pool
NamedStart(t) ==
    /\ caller[t].pc = "named_start"
    /\ npools' = [npools EXCEPT ![caller[t].name].state = "STARTED",
                                ![caller[t].name].starts = @ + 1]
    /\ GetPoolEnds(t, "none", NamedPool(caller[t].name))
    /\ UNCHANGED << clientVars, settings, gpool, lock, dpools >>

\* _pool.start() raises: a session's open() failed.
NamedStartFails(t) ==
    /\ caller[t].pc = "named_start"
    /\ GetPoolEnds(t, "OpenError", NoPool)
    /\ UNCHANGED << clientVars, settings, gpool, lock, dpools, npools >>

\* The caller takes the outcome of get_pool and is free again.
GetPoolReturn(t) ==
    /\ caller[t].pc = "finished"
    /\ caller' = [caller EXCEPT ![t] = [pc |-> "idle", name |-> NoName,
                                        err |-> "none", got |-> NoPool]]
    /\ UNCHANGED << clientVars, settings, gpool, lock, dpools, npools >>

RegistryStep(t) ==
    \/ \E name \in Names \cup {NoName} : GetPool(t, name)
    \/ Acquire(t)
    \/ CheckPool(t)
    \/ CreatePools(t)
    \/ DefaultStart(t)
    \/ DefaultStartFails(t)
    \/ Release(t)
    \/ Lookup(t)
    \/ NamedStart(t)
    \/ NamedStartFails(t)
    \/ GetPoolReturn(t)

NextRegistry == \E t \in Threads : RegistryStep(t)

SpecRegistry == InitRegistry /\ [][NextRegistry]_vars

TypeOKRegistry ==
    /\ settings \in SettingsSpace
    /\ gpool \in {NoPool, PoolDict} \cup {DefaultPool(d) : d \in DefaultIds}
    /\ lock \in {0} \cup Threads
    /\ \A d \in DefaultIds : dpools[d].starts \in 0..1
    /\ \A m \in Names : npools[m].starts \in 0..Cardinality(Threads)
    /\ \A t \in Threads : caller[t].name \in Names \cup {NoName}

\* ===================================================================== claims
Elems(q) == {q[k] : k \in 1..Len(q)}
NoDuplicates(q) == \A j, k \in 1..Len(q) : j # k => q[j] # q[k]

\* A thread whose scope (checkout, use, __exit__) has just ended.
ScopeEnded(t) == pc[t] = "done" /\ op[t] = "scope" /\ sess[t] # NoSession

\* The scope ended with a RuntimeError carrying one of the two messages.
IsStaleSignature(e) ==
    /\ e.type = "RuntimeError"
    /\ e.value.kind = "instance"
    /\ e.value.text \in {MsgStopped, MsgDisconnected}

HandlerErrors == {"AttributeError", "Empty", "OpenError"}

\* C1: in every reachable state each session is held by at most one caller,
\* and a session a caller holds is not in the buffer.
C1_MutualExclusion ==
    \A t \in Threads :
        Holds(t) =>
            /\ ~InQueue(sess[t])
            /\ \A u \in Threads \ {t} : Holds(u) => sess[u] # sess[t]

C1_Witness ==
    /\ pc[1] = "using"
    /\ pc[2] = "using"
    /\ sess[1] # sess[2]
    /\ Len(queue) > 0

\* C2: in every reachable state the buffer holds at most pool_size sessions.
C2_BufferWithinCapacity == Len(queue) <= pool_size

\* C3: a checkout on a started pool whose buffer is empty does not fail: no
\* call of next() on a started pool ends by raising Empty.
C3_CheckoutNeverFailsOnEmpty ==
    \A t \in Threads :
        ~ ( /\ pc[t] = "done"
            /\ op[t] = "scope"
            /\ sess[t] = NoSession
            /\ state = "STARTED"
            /\ raised[t] = "Empty" )

\* C4: when a scope has ended with the stopped/disconnected-consumer
\* signature, every session buffered at that moment and the triggering
\* session are destroyed and the buffer holds pool_size fresh sessions.
C4_StaleConsumerRecovery ==
    \A t \in Threads :
        (ScopeEnded(t) /\ poolAlive /\ IsStaleSignature(exc[t])) =>
            /\ stops[sess[t]] = 1
            /\ \A s \in Elems(Tail(snap)) : stops[s] >= 1
            /\ Len(queue) = pool_size
            /\ Elems(queue) \cap Elems(snap) = {}

C6_RecoveredErrorNotSurfaced ==
    \A t \in Threads :
        ( /\ ScopeEnded(t)
          /\ (exc[t] = Instance("ConnectionError", MsgOther) \/ IsStaleSignature(exc[t])) ) =>
            raised[t] = "none"

\* C6 amended: an error of the ConnectionError or stale-consumer category
\* that ended a scope is never consumed by the handler: once the handler is
\* through, the caller gets that error, or the error the handler itself
\* raised in its place.
C6_RecoveredErrorSurfaces ==
    \A t \in Threads :
        ( /\ ScopeEnded(t)
          /\ (exc[t] = Instance("ConnectionError", MsgOther) \/ IsStaleSignature(exc[t])) ) =>
            /\ raised[t] # "none"
            /\ raised[t] \in {exc[t].type} \cup HandlerErrors

C6_Witness ==
    /\ ScopeEnded(1)
    /\ exc[1] = Instance("ConnectionError", MsgOther)
    /\ raised[1] = "ConnectionError"
    /\ stops[sess[1]] = 1

\* C7: when a scope has ended, its session was released exactly once: it is
\* back in the pool alive (in the buffer, or already checked out again), or
\* it is destroyed; it is never left open outside the buffer.
C7_ReleasedExactlyOnce ==
    \A t \in Threads :
        ScopeEnded(t) =>
            \/ /\ stops[sess[t]] = 0
               /\ \/ InQueue(sess[t])
                  \/ \E u \in Threads \ {t} : Holds(u) /\ sess[u] = sess[t]
            \/ /\ stops[sess[t]] = 1
               /\ ~InQueue(sess[t])

\* C8: in every reachable state of a started pool at most pool_size sessions
\* are opened and not yet closed.
C8_OpenSessionsBounded == state = "STARTED" => OpenCount <= pool_size

\* C9: when start() has returned, the buffer holds exactly pool_size
\* distinct live sessions, no session is checked out and state is STARTED.
C9_StartFillsPool ==
    \A t \in Threads :
        (pc[t] = "done" /\ op[t] = "start" /\ raised[t] = "none" /\ poolAlive) =>
            /\ Len(queue) = pool_size
            /\ NoDuplicates(queue)
            /\ \A s \in Elems(queue) : IsOpen(s)
            /\ \A u \in Threads : ~Holds(u)
            /\ state = "STARTED"
            /\ qref = "queue"

C9_Witness ==
    /\ pc[1] = "done"
    /\ op[1] = "start"
    /\ raised[1] = "none"
    /\ pool_size = 2
    /\ Len(queue) = 2

\* C10: when a scope has ended without an error, the same session is back
\* in the buffer, alive, and the buffer is as long as before the checkout.
C10_NormalCycleRestoresBuffer ==
    \A t \in Threads :
        (ScopeEnded(t) /\ poolAlive /\ exc[t] = NoExc) =>
            /\ raised[t] = "none"
            /\ queue = Append(Tail(snap), sess[t])
            /\ sess[t] = Head(snap)
            /\ IsOpen(sess[t])
            /\ Len(queue) = Len(snap)

C10_Witness ==
    /\ ScopeEnded(1)
    /\ poolAlive
    /\ exc[1] = NoExc
    /\ raised[1] = "none"
    /\ Len(snap) = 2
    /\ InQueue(sess[1])

\* An error raised in the scope that the handler has no recovery branch for.
OtherError(e) ==
    /\ e.value.kind = "instance"
    /\ e.type \notin {"None", "ConnectionError"}
    /\ ~IsStaleSignature(e)

\* C11: when a scope has ended with an error that is neither the stale
\* consumer signature nor a ConnectionError, that error reaches the caller,
\* the same session is back in the buffer and alive, the buffer holds the
\* sessions it held before the checkout (none created, none destroyed) and
\* is as long as before.
C11_OtherErrorPropagates ==
    \A t \in Threads :
        (ScopeEnded(t) /\ poolAlive /\ OtherError(exc[t])) =>
            /\ raised[t] = exc[t].type
            /\ queue = Append(Tail(snap), sess[t])
            /\ sess[t] = Head(snap)
            /\ \A s \in Elems(snap) : IsOpen(s)
            /\ Len(queue) = Len(snap)

C11_Witness ==
    /\ ScopeEnded(1)
    /\ poolAlive
    /\ exc[1] = Instance("ValueError", MsgOther)
    /\ raised[1] = "ValueError"
    /\ Len(snap) = 2
    /\ InQueue(sess[1])

\* C12: when stop() has returned, every session the buffer held when stop()
\* began has been destroyed exactly once and the pool has no buffer; while
\* the pool has no buffer nobody holds a session and a checkout that has
\* ended has failed without a session.
C12_StopDestroysAndDisables ==
    /\ \A t \in Threads :
          (pc[t] = "done" /\ op[t] = "stop" /\ raised[t] = "none" /\ poolAlive) =>
              /\ qref = "None"
              /\ queue = << >>
              /\ \A s \in Elems(snap) : stops[s] = 1
    /\ qref = "None" =>
          \A t \in Threads :
              /\ ~Holds(t)
              /\ (pc[t] = "done" /\ op[t] = "scope") =>
                     (raised[t] # "none" /\ sess[t] = NoSession)

C12_Witness ==
    /\ qref = "None"
    /\ pc[1] = "done"
    /\ op[1] = "scope"
    /\ raised[1] = "AttributeError"
    /\ stops[1] = 1
    /\ stops[2] = 1

\* C13: a pool that is started stays started in every step, stop() and the
\* recovery branches included.
C13_StartedForever == [][IsStarted(state) => IsStarted(state')]_vars

C13_Witness ==
    /\ IsStarted(state)
    /\ qref = "None"
    /\ \E t \in Threads : pc[t] = "done" /\ op[t] = "stop" /\ raised[t] = "none"

\* C19: when _clear has returned, every session it took out of the buffer
\* has been destroyed.
C19_ClearDestroysDequeued ==
    \A t \in Threads :
        (pc[t] = "reload" /\ IsStaleConsumer(exc[t])) =>
            \A s \in Elems(Tail(snap)) : ~IsOpen(s)

\* C20: no session is destroyed twice, and a destroyed session is neither
\* in the buffer nor in the hands of a caller.
C20_DestroyedOnceAndGone ==
    \A s \in SessionIds :
        /\ stops[s] <= 1
        /\ stops[s] = 1 =>
              /\ ~InQueue(s)
              /\ \A t \in Threads : ~(Holds(t) /\ sess[t] = s)

C20_Witness ==
    /\ qref = "None"
    /\ \E s \in SessionIds : stops[s] = 1
    /\ \E t \in Threads : pc[t] = "done" /\ op[t] = "scope"
                           /\ sess[t] # NoSession /\ stops[sess[t]] = 1

\* A get_pool call that has ended and whose outcome the caller has in hand.
GetPoolEnded(t) == caller[t].pc = "finished"

\* The configuration is valid and declares no named pools.
DefaultPoolMode == settings.config /\ settings.multi_pool = {}

\* C14: with a valid configuration and no named pools, at most one default
\* pool object is ever constructed, start() runs at most once on it, all
\* callers that were handed a pool were handed that same object, and start()
\* had already run on it, once, when they received it.
C14_DefaultPoolCreatedOnce ==
    DefaultPoolMode =>
        /\ Cardinality({d \in DefaultIds : dpools[d].made}) <= 1
        /\ \A d \in DefaultIds : dpools[d].starts <= 1
        /\ \A t \in Threads :
              caller[t].got.kind = "default" =>
                  /\ caller[t].got = gpool
                  /\ dpools[caller[t].got.id].made
                  /\ dpools[caller[t].got.id].state = "STARTED"
                  /\ dpools[caller[t].got.id].starts = 1
        /\ \A t, u \in Threads :
              (caller[t].got.kind = "default" /\ caller[u].got.kind = "default") =>
                  caller[t].got = caller[u].got

C14_Witness ==
    /\ DefaultPoolMode
    /\ \A t \in Threads : GetPoolEnded(t) /\ caller[t].got.kind = "default"
    /\ dpools[gpool.id].starts = 1

\* C15: a caller whose get_pool call has ended, by a return or by an error,
\* does not hold the creation lock.
C15_LockReleasedWhenFinished ==
    \A t \in Threads : GetPoolEnded(t) => lock # t

\* C16: the context data of every constructed named pool is the shared
\* default bag with the bag of that name written over it.
C16_NameSpecificOverridesShared ==
    \A m \in Names :
        npools[m].made =>
            npools[m].context_data =
                DictUpdate(settings.context_data, settings.multi_context_data[m])

\* No pool object exists for a name that is not declared.
NoPoolForUndeclared ==
    \A m \in Names \ settings.multi_pool :
        ~npools[m].made /\ npools[m].starts = 0 /\ ~IsStarted(npools[m].state)

\* A get_pool(name) call that has ended, for a name that is not declared.
UndeclaredEnded(t) ==
    /\ GetPoolEnded(t)
    /\ caller[t].name # NoName
    /\ caller[t].name \notin settings.multi_pool

\* C17 as stated: every get_pool(name) call for an undeclared name that has
\* ended has failed with ImproperlyConfigured, returned no pool, and no pool
\* exists or was started for that name.
C17_UndeclaredNameIsConfigError ==
    /\ NoPoolForUndeclared
    /\ \A t \in Threads :
          UndeclaredEnded(t) =>
              caller[t].err = "ImproperlyConfigured" /\ caller[t].got = NoPool

\* C17 amended: every get_pool(name) call for an undeclared name that has
\* ended has failed and returned no pool, and no pool exists or was started
\* for that name; the failure is ImproperlyConfigured, except that the call
\* which constructs the default pool (no named pools configured) fails with
\* the error of that pool's start() when a session cannot be opened.
C17_UndeclaredNameFails ==
    /\ NoPoolForUndeclared
    /\ \A t \in Threads :
          UndeclaredEnded(t) =>
              /\ caller[t].got = NoPool
              /\ \/ caller[t].err = "ImproperlyConfigured"
                 \/ /\ caller[t].err = "OpenError"
                    /\ DefaultPoolMode
                    /\ gpool.kind = "default"
                    /\ ~IsStarted(dpools[gpool.id].state)

C17_Witness ==
    /\ UndeclaredEnded(1)
    /\ caller[1].err = "ImproperlyConfigured"
    /\ gpool = PoolDict
    /\ settings.config

\* C18: start() runs to completion at most once on every named pool.
C18_NamedPoolStartedOnce ==
    \A m \in Names : npools[m].starts <= 1

====
